---- MODULE Spec2Model ----
(***************************************************************************)
(* Telemetry Coordinator and output-mode state machine of power-hub:       *)
(* the Index component of src/src/pages/Index.tsx.                         *)
(*                                                                         *)
(* The state is the component's React state (useState cells), its refs,    *)
(* the browser intervals it creates (each with the values its callback     *)
(* closed over) and the /read fetches in flight.  One action per handler,  *)
(* timer callback or asynchronous continuation.  A handler reads the       *)
(* values of the render it was created in (the unprimed variables) and     *)
(* its state updates are applied together afterwards; the simulator        *)
(* effect runs after every render that changed one of its dependencies.    *)
(* The handlers are the Coordinator's interface: they are invoked here     *)
(* whenever a child component may call the prop it was given.              *)
(*                                                                         *)
(* Numbers.  Voltages, currents, buffer entries and setpoint powers are    *)
(* integers in units of 0.0001 (Unit = 1.0); telemetry.power is the exact  *)
(* product, in units of 0.00000001.  Arithmetic is exact (no binary        *)
(* floating point error).                                                  *)
(***************************************************************************)
EXTENDS Integers, Sequences, FiniteSets, TLC

\* 1.0 in the units of voltages, currents and buffer entries.
Unit == 10 * 1000

\* ---- program constants ------------------------------------------------
BufferLen == 60
RampSteps == 12
FreshnessWindow == 5000

\* ---- bounds of the model ----------------------------------------------
MaxSimTicks == 2
MaxPolls == 2
MaxPushes == 1
MaxCommands == 3
MaxConnChanges == 2
MaxClockSteps == 2
MaxUnmounts == 1
MaxEvents == 4
MaxRampOverlap == 2

\* ---- values ------------------------------------------------------------
ABSENT == -1

Modes == {"load", "battery", "mobile"}
Transports == {"webserial", "bridge", "simulation"}

\* Number(x.toFixed(3)) of a non-negative voltage/current/buffer number.
toFixed3(x) == ((x + 5) \div 10) * 10

\* Number(p.toFixed(3)) of a non-negative power held as an exact product.
toFixed3Power(p) == ((p + 50000) \div 100000) * 10

\* a * b of two numbers in Unit, as an exact product.
Times(a, b) == a * b

\* Array(60).fill(v)
Fill(v) == [i \in 1..BufferLen |-> v]

\* s.slice(-n)
SliceLast(s, n) == IF Len(s) <= n THEN s ELSE SubSeq(s, Len(s) - n + 1, Len(s))

\* Mutant of the append: the newest stored value is dropped instead of the oldest.
Append60DropNewest(prev, value) == Append(SubSeq(prev, 1, BufferLen - 1), value)

\* [...prev.slice(-59), value].slice(-60)
Append60(prev, value) == SliceLast(Append(SliceLast(prev, BufferLen - 1), value), BufferLen)

\* ---- inputs --------------------------------------------------------------
\* "no settings stored" (null)
NULL == [isNull |-> TRUE]

\* ChargingSettings {vmax, imax} offered by the battery tab (vmax 3.0..4.35 V in
\* steps of 0.01, imax 0.1..2.0 A in steps of 0.1): 4.2 V / 1 A and 4.35 V / 0.5 A.
BatterySettingsSet == {[vmax |-> 42 * 1000, imax |-> Unit], [vmax |-> 435 * 100, imax |-> 5 * 1000]}

\* MobileChargeSettings {voltage, current} offered by the mobile tab (up to 5.0 V and
\* 2.0 A in steps of 0.01): 5 V / 2 A and 4.99 V / 1.01 A.
MobileSettingsSet == {[voltage |-> 5 * Unit, current |-> 2 * Unit],
                      [voltage |-> 499 * 100, current |-> 101 * 100]}

\* Load setpoints offered by the load tab (the preset 9V/1.5A; 5V/1A is the start).
VoltageSet == {9 * Unit}
CurrentSet == {15 * 1000}

\* The presets of the load tab applied in the model: 9V/1.5A.
Presets == {[voltage |-> 9 * Unit, current |-> 15 * 1000]}

\* ---- state ---------------------------------------------------------------
VARIABLES
  activeTab, outputEnabled, isCharging, isMobileCharging, connected, transport,
  activeOutputMode, currentBatterySettings, currentMobileSettings,
  targetVoltage, targetCurrent, telemetry, sparklineData,
  simIntervalRef, inputRampRef, firstRealReceivedRef, lastInputValueRef, pollingRef,
  simTimers, rampTimers, pollTimers, inflight, now, used, last, realTrusted, sampleOrigin,
  mounted, deviceBar, loadTab, mobileTab, observed

reactState == <<activeTab, outputEnabled, isCharging, isMobileCharging, connected, transport,
                activeOutputMode, currentBatterySettings, currentMobileSettings,
                targetVoltage, targetCurrent, telemetry, sparklineData>>
refs == <<simIntervalRef, inputRampRef, firstRealReceivedRef, lastInputValueRef, pollingRef>>
timers == <<simTimers, rampTimers, pollTimers, inflight>>
\* The state of the child components that hold the page's controls (the DeviceBar of
\* the header, the Load tab, the Mobile tab), and what was observed of their use.
children == <<deviceBar, loadTab, mobileTab, observed>>
vars == <<reactState, refs, timers, now, used, last, realTrusted, sampleOrigin, mounted,
          children>>

modeState == <<activeTab, outputEnabled, isCharging, isMobileCharging,
               activeOutputMode, currentBatterySettings, currentMobileSettings>>
connState == <<connected, transport>>
targets == <<targetVoltage, targetCurrent>>
samples == <<telemetry, sparklineData>>

\* What the last step did: the handler and its argument, what requestStart
\* returned, the toasts raised, which source wrote to the buffers and what, the mode
\* that was active before, and whether the step before it stopped an active mode.
NoArg == [none |-> TRUE]
NoWrite == [reset |-> FALSE, inputPower |-> <<>>, outputPower |-> <<>>,
            outputVoltage |-> <<>>, outputCurrent |-> <<>>]
Wrote(reset, ip, op, ov, oc) ==
  [reset |-> reset, inputPower |-> ip, outputPower |-> op, outputVoltage |-> ov, outputCurrent |-> oc]
Did(op, arg, ok, toasts, writer, wrote) ==
  [op |-> op, arg |-> arg, ok |-> ok, toasts |-> toasts, writer |-> writer, wrote |-> wrote,
   prev |-> activeOutputMode,
   afterStop |-> last.prev # "none" /\ activeOutputMode = "none"]

\* The record of a step, and the history the claims are judged by.  realTrusted: a
\* first real sample was accepted while Connected on a non-simulation transport,
\* and the transport has not been switched to Simulation since.  sampleOrigin: the
\* source of the Sample held in telemetry.
Observe(op, arg, ok, toasts, writer, wrote) ==
  /\ last' = Did(op, arg, ok, toasts, writer, wrote)
  /\ realTrusted' =
       IF op = "handleConnectionChange"
       THEN realTrusted /\ transport' # "simulation"
       ELSE realTrusted \/ (wrote.reset /\ connected /\ transport # "simulation")
  /\ sampleOrigin' = IF writer \in {"sim", "poll", "push"} THEN writer ELSE sampleOrigin

\* Other events interleave with a ramp during its first MaxRampOverlap ticks and
\* after its last one.
RampQuiet == \A t \in rampTimers : t.stepIndex <= MaxRampOverlap

\* The events of a run are bounded, by kind and in total (ramp ticks and fetch
\* completions are bounded by the ramps and fetches started).
Spend(kind, max) ==
  /\ RampQuiet
  /\ used[kind] < max
  /\ used.sim + used.poll + used.push + used.cmd + used.conn + used.clock + used.unmount
       < MaxEvents
  /\ used' = [used EXCEPT ![kind] = @ + 1]

\* What runs only while the component is mounted: its handlers, its listener, and
\* the intervals its cleanups clear.
Mounted == mounted /\ UNCHANGED mounted

\* The id window.setInterval returns: one no live interval of the set has.
FreshId(ts) == CHOOSE i \in 1..(Cardinality(ts) + 1) : \A t \in ts : t.id # i

\* window.clearInterval(id)
ClearInterval(ts, id) == {t \in ts : t.id # id}

\* DeviceBar: no port selected, no connect running.  pending is the port the running
\* connect() closed over.
DeviceBarInit == [selectedPort |-> "", isConnecting |-> FALSE, pending |-> ""]

\* LoadOutputTab: useState(5.0), useState(1.0), showConfirmation false.
LoadTabInit == [voltage |-> 5 * Unit, currentLimit |-> Unit, showConfirmation |-> FALSE]

\* ChargeMobileTab: voltage 5.0, currentLimit 1.0, duration 60 (minutes),
\* timeRemaining 0, not paused, no stop dialog.
MobileTabInit == [voltage |-> 5 * Unit, currentLimit |-> Unit, duration |-> 60,
                  timeRemaining |-> 0, isPaused |-> FALSE, showStopConfirmation |-> FALSE]

\* What was observed of the controls: the control the last step used, the
\* connection state the DeviceBar last reported, and for the mobile charge last
\* started its duration in seconds and the countdown ticks counted since.
ObservedInit == [control |-> "none", reported |-> NULL, durationSec |-> 0, elapsed |-> 0]

Init ==
  /\ deviceBar = DeviceBarInit
  /\ loadTab = LoadTabInit
  /\ mobileTab = MobileTabInit
  /\ observed = ObservedInit
  /\ activeTab = "load"
  /\ outputEnabled = FALSE
  /\ isCharging = FALSE
  /\ isMobileCharging = FALSE
  /\ connected = FALSE
  /\ transport = "simulation"
  /\ activeOutputMode = "none"
  /\ currentBatterySettings = NULL
  /\ currentMobileSettings = NULL
  /\ targetVoltage = 5 * Unit
  /\ targetCurrent = Unit
  /\ telemetry = [timestamp |-> 0, voltage |-> 0, current |-> 0, power |-> 0,
                  simulated |-> TRUE, inputVoltage |-> ABSENT]
  /\ sparklineData = [inputPower |-> Fill(0), outputPower |-> Fill(0),
                      outputVoltage |-> Fill(0), outputCurrent |-> Fill(0)]
  /\ inputRampRef = 0
  /\ firstRealReceivedRef = FALSE
  /\ lastInputValueRef = 0
  /\ pollingRef = 0
  \* the simulator effect has run once after the first render
  /\ simIntervalRef = 1
  /\ simTimers = {[id |-> 1, outputEnabled |-> FALSE, activeOutputMode |-> "none",
                   targetVoltage |-> 5 * Unit, targetCurrent |-> Unit,
                   currentBatterySettings |-> NULL, currentMobileSettings |-> NULL]}
  /\ rampTimers = {}
  /\ pollTimers = {}
  /\ inflight = 0
  /\ now = 0
  /\ used = [sim |-> 0, poll |-> 0, push |-> 0, cmd |-> 0, conn |-> 0, clock |-> 0,
             unmount |-> 0]
  /\ mounted = TRUE
  /\ last = [op |-> "init", arg |-> NoArg, ok |-> "none", toasts |-> <<>>, writer |-> "none",
             wrote |-> NoWrite, prev |-> "none", afterStop |-> FALSE]
  /\ realTrusted = FALSE
  /\ sampleOrigin = "init"

\* ---- helpers of the component -------------------------------------------
\* computeActivePin, over the values a closure holds.
computeActivePin(mode, tv, tc, battery, mobile) ==
  IF mode = "load" THEN toFixed3Power(Times(tv, tc))
  ELSE IF mode = "battery" /\ battery # NULL THEN toFixed3Power(Times(battery.vmax, battery.imax))
  ELSE IF mode = "mobile" /\ mobile # NULL THEN toFixed3Power(Times(mobile.voltage, mobile.current))
  ELSE 0

\* readLastInputValue: the ref always holds a number, so the ?? fallbacks never apply.
readLastInputValue == lastInputValueRef

\* The ramp interval startInputPowerRamp creates: what its callback closes over.
NewRamp(id, startVal, targetPin) ==
  [id |-> id, startVal |-> startVal, delta |-> targetPin - startVal, stepIndex |-> 0]

\* Mutant of startInputPowerRamp: the interval in flight is not cleared.
startInputPowerRampNoCancel(ts, ref, targetPin) ==
  LET id == FreshId(ts)
  IN  [timers |-> ts \cup {NewRamp(id, readLastInputValue, targetPin)}, ref |-> id]

\* startInputPowerRamp(targetPin): the ramp intervals and the ref afterwards.
startInputPowerRamp(ts, ref, targetPin) ==
  LET cleared == IF ref # 0 THEN ClearInterval(ts, ref) ELSE ts
      id == FreshId(cleared)
  IN  [timers |-> cleared \cup {NewRamp(id, readLastInputValue, targetPin)}, ref |-> id]

\* Mutant of shouldRunSim: the effect restarts the simulator on every run.
shouldRunSimAlways(c, tr, first) == TRUE

\* shouldRunSim of the simulator effect, over the values of a render.
shouldRunSim(c, tr, first) == ~(c /\ tr # "simulation" /\ first = TRUE)

\* The simulator effect (cleanup of the previous run, then the body), run after a
\* render in which one of its dependencies changed.
SimEffect ==
  LET deps == <<outputEnabled, isCharging, connected, transport,
                targetVoltage, targetCurrent, activeOutputMode>>
      cleared == IF simIntervalRef # 0 THEN ClearInterval(simTimers, simIntervalRef) ELSE simTimers
      id == FreshId(cleared)
  IN  IF deps' = deps
      THEN UNCHANGED <<simTimers, simIntervalRef>>
      ELSE IF shouldRunSim(connected', transport', firstRealReceivedRef')
           THEN /\ simIntervalRef' = id
                /\ simTimers' = cleared \cup
                     {[id |-> id, outputEnabled |-> outputEnabled',
                       activeOutputMode |-> activeOutputMode',
                       targetVoltage |-> targetVoltage', targetCurrent |-> targetCurrent',
                       currentBatterySettings |-> currentBatterySettings',
                       currentMobileSettings |-> currentMobileSettings']}
           ELSE /\ simIntervalRef' = 0
                /\ simTimers' = cleared

\* ---- ModeArbiter: requestStart / stopActiveOutput -----------------------
\* The toast of a handler; active is the mode its description names ("none" when it
\* names no active mode).
Toast(title, active) == [title |-> title, active |-> active]

\* Mutants of requestStart's guard: one that never rejects, one that also rejects
\* the re-start of the active mode.
requestAcceptedAlways(mode) == TRUE
requestAcceptedOnlyIdle(mode) == activeOutputMode = "none"

\* requestStart's guard: the request is let through unless another mode is active.
requestAccepted(mode) == ~(activeOutputMode # "none" /\ activeOutputMode # mode)

\* requestStart's rejection toast.
RejectionToast == Toast("Stop previous output first", activeOutputMode)

\* The commands are bounded, and each leaves the sample state and the clock alone.
Command ==
  /\ Mounted
  /\ Spend("cmd", MaxCommands)
  /\ UNCHANGED <<samples, firstRealReceivedRef, lastInputValueRef, inflight, now>>

\* A handler that returns after requestStart returned false.
Rejected(op, toasts) ==
  /\ UNCHANGED <<modeState, connState, targets, inputRampRef, rampTimers,
                 pollingRef, pollTimers, simIntervalRef, simTimers>>
  /\ Observe(op, NoArg, "rejected", toasts \o <<RejectionToast>>, "none", NoWrite)

\* Mutant of startBackendPolling: no guard against a second interval.
startBackendPollingNoGuard ==
  /\ pollingRef' = FreshId(pollTimers)
  /\ pollTimers' = pollTimers \cup {[id |-> FreshId(pollTimers)]}

\* startBackendPolling: no second interval while one is referenced.
startBackendPolling ==
  IF pollingRef # 0
  THEN UNCHANGED <<pollingRef, pollTimers>>
  ELSE /\ pollingRef' = FreshId(pollTimers)
       /\ pollTimers' = pollTimers \cup {[id |-> FreshId(pollTimers)]}

\* Mutant of stopBackendPolling: stopping a stopped poller starts it.
stopBackendPollingToggles ==
  IF pollingRef # 0
  THEN /\ pollTimers' = ClearInterval(pollTimers, pollingRef)
       /\ pollingRef' = 0
  ELSE /\ pollingRef' = FreshId(pollTimers)
       /\ pollTimers' = pollTimers \cup {[id |-> FreshId(pollTimers)]}

\* stopBackendPolling
stopBackendPolling ==
  IF pollingRef # 0
  THEN /\ pollTimers' = ClearInterval(pollTimers, pollingRef)
       /\ pollingRef' = 0
  ELSE UNCHANGED <<pollingRef, pollTimers>>

\* The ramp a handler starts toward pin.
StartRamp(pin) ==
  LET r == startInputPowerRamp(rampTimers, inputRampRef, pin)
  IN  /\ rampTimers' = r.timers
      /\ inputRampRef' = r.ref

\* Mutant of setActiveOutputMode(null): the active mode is left in place.
modeAfterStopKept == activeOutputMode

\* setActiveOutputMode(null) of stopActiveOutput
modeAfterStop == "none"

\* stopActiveOutput, followed by the toasts of the handler that called it.
stopActiveOutput(op, after) ==
  LET prev == activeOutputMode
      stopped == <<Toast("Output stopped", prev)>>
  IN  /\ UNCHANGED <<activeTab, connState, targets>>
      /\ IF prev = "none"
         THEN /\ UNCHANGED <<activeOutputMode, outputEnabled, isCharging, isMobileCharging,
                             currentBatterySettings, currentMobileSettings,
                             inputRampRef, rampTimers, pollingRef, pollTimers>>
              /\ Observe(op, NoArg, "none", after, "none", NoWrite)
         ELSE /\ activeOutputMode' = modeAfterStop
              /\ Observe(op, NoArg, "none", stopped \o after, "none", NoWrite)
              /\ IF prev = "load"
                 THEN /\ outputEnabled' = FALSE
                      /\ StartRamp(0)
                      /\ stopBackendPolling
                      /\ UNCHANGED <<isCharging, isMobileCharging,
                                     currentBatterySettings, currentMobileSettings>>
                 ELSE IF prev = "battery"
                 THEN /\ isCharging' = FALSE
                      /\ currentBatterySettings' = NULL
                      /\ UNCHANGED <<outputEnabled, isMobileCharging, currentMobileSettings,
                                     inputRampRef, rampTimers, pollingRef, pollTimers>>
                 ELSE /\ isMobileCharging' = FALSE
                      /\ currentMobileSettings' = NULL
                      /\ outputEnabled' = FALSE
                      /\ UNCHANGED <<isCharging, currentBatterySettings,
                                     inputRampRef, rampTimers, pollingRef, pollTimers>>

\* ---- command handlers ----------------------------------------------------
\* The pin computeActivePin returns inside a handler: from the render the handler
\* closed over, before its own state updates apply.
HandlerPin == computeActivePin(activeOutputMode, targetVoltage, targetCurrent,
                               currentBatterySettings, currentMobileSettings)

handleOutputToggleOn ==
  /\ Command
  /\ IF ~requestAccepted("load")
     THEN Rejected("handleOutputToggle(true)", <<>>)
     ELSE /\ activeOutputMode' = "load"
          /\ outputEnabled' = TRUE
          /\ StartRamp(HandlerPin)
          /\ UNCHANGED <<activeTab, isCharging, isMobileCharging, currentBatterySettings,
                         currentMobileSettings, connState, targets, pollingRef, pollTimers>>
          /\ Observe("handleOutputToggle(true)", NoArg, "accepted",
                         <<Toast("Output Enabled", "none")>>, "none", NoWrite)
          /\ SimEffect

handleOutputToggleOff ==
  /\ Command
  /\ IF activeOutputMode = "load"
     THEN stopActiveOutput("handleOutputToggle(false)", <<Toast("Output Disabled", "none")>>)
     ELSE /\ outputEnabled' = FALSE
          /\ StartRamp(0)
          /\ UNCHANGED <<activeTab, isCharging, isMobileCharging, activeOutputMode,
                         currentBatterySettings, currentMobileSettings, connState, targets,
                         pollingRef, pollTimers>>
          /\ Observe("handleOutputToggle(false)", NoArg, "none",
                         <<Toast("Output Disabled", "none")>>, "none", NoWrite)
  /\ SimEffect

handleSoftStart ==
  /\ Command
  /\ IF ~requestAccepted("load")
     THEN Rejected("handleSoftStart", <<Toast("Soft Start Initiated", "none")>>)
     ELSE /\ activeOutputMode' = "load"
          /\ outputEnabled' = TRUE
          /\ StartRamp(HandlerPin)
          /\ startBackendPolling
          /\ UNCHANGED <<activeTab, isCharging, isMobileCharging, currentBatterySettings,
                         currentMobileSettings, connState, targets>>
          /\ Observe("handleSoftStart", NoArg, "accepted",
                         <<Toast("Soft Start Initiated", "none")>>, "none", NoWrite)
          /\ SimEffect

handleStartCharging(settings) ==
  /\ Command
  /\ IF ~requestAccepted("battery")
     THEN Rejected("handleStartCharging", <<>>)
     ELSE /\ activeOutputMode' = "battery"
          /\ currentBatterySettings' = settings
          /\ isCharging' = TRUE
          /\ activeTab' = "battery"
          /\ StartRamp(toFixed3Power(Times(settings.vmax, settings.imax)))
          /\ UNCHANGED <<outputEnabled, isMobileCharging, currentMobileSettings,
                         connState, targets, pollingRef, pollTimers>>
          /\ Observe("handleStartCharging", settings, "accepted",
                         <<Toast("Battery Charging Started", "none")>>, "none", NoWrite)
          /\ SimEffect

handleStopCharging ==
  /\ Command
  /\ stopActiveOutput("handleStopCharging", <<Toast("Charging Stopped", "none")>>)
  /\ SimEffect

handleStartMobileCharge(settings) ==
  /\ Command
  /\ IF ~requestAccepted("mobile")
     THEN Rejected("handleStartMobileCharge", <<>>)
     ELSE /\ activeOutputMode' = "mobile"
          /\ currentMobileSettings' = settings
          /\ isMobileCharging' = TRUE
          /\ outputEnabled' = TRUE
          /\ activeTab' = "mobile"
          /\ StartRamp(toFixed3Power(Times(settings.voltage, settings.current)))
          /\ UNCHANGED <<isCharging, currentBatterySettings,
                         connState, targets, pollingRef, pollTimers>>
          /\ Observe("handleStartMobileCharge", settings, "accepted",
                         <<Toast("Mobile Charging Started", "none")>>, "none", NoWrite)
          /\ SimEffect

handleStopMobileCharge ==
  /\ Command
  /\ stopActiveOutput("handleStopMobileCharge", <<Toast("Mobile Charging Stopped", "none")>>)
  /\ SimEffect

handleVoltageChange(voltage) ==
  /\ Command
  /\ targetVoltage' = voltage
  /\ IF activeOutputMode = "load" /\ outputEnabled
     THEN StartRamp(toFixed3Power(Times(voltage, targetCurrent)))
     ELSE UNCHANGED <<inputRampRef, rampTimers>>
  /\ UNCHANGED <<modeState, connState, targetCurrent, pollingRef, pollTimers>>
  /\ Observe("handleVoltageChange", NoArg, "none", <<>>, "none", NoWrite)
  /\ SimEffect

handleCurrentChange(current) ==
  /\ Command
  /\ targetCurrent' = current
  /\ IF activeOutputMode = "load" /\ outputEnabled
     THEN StartRamp(toFixed3Power(Times(targetVoltage, current)))
     ELSE UNCHANGED <<inputRampRef, rampTimers>>
  /\ UNCHANGED <<modeState, connState, targetVoltage, pollingRef, pollTimers>>
  /\ Observe("handleCurrentChange", NoArg, "none", <<>>, "none", NoWrite)
  /\ SimEffect

\* applyPreset of the load tab: onVoltageChange(preset.voltage) and then
\* onCurrentChange(preset.current), both from the closures of one render, so the
\* second still sees the targetVoltage of before the first.
applyPreset(preset) ==
  LET pinV == toFixed3Power(Times(preset.voltage, targetCurrent))
      pinC == toFixed3Power(Times(targetVoltage, preset.current))
      afterV == startInputPowerRamp(rampTimers, inputRampRef, pinV)
      afterC == startInputPowerRamp(afterV.timers, afterV.ref, pinC)
  IN  /\ Command
      /\ targetVoltage' = preset.voltage
      /\ targetCurrent' = preset.current
      /\ IF activeOutputMode = "load" /\ outputEnabled
         THEN /\ rampTimers' = afterC.timers
              /\ inputRampRef' = afterC.ref
         ELSE UNCHANGED <<inputRampRef, rampTimers>>
      /\ UNCHANGED <<modeState, connState, pollingRef, pollTimers>>
      /\ Observe("applyPreset", preset, "none", <<>>, "none", NoWrite)
      /\ SimEffect

\* ---- connection ----------------------------------------------------------
handleConnectionChange(connectedFlag, tr) ==
  /\ Mounted
  /\ Spend("conn", MaxConnChanges)
  /\ connected' = connectedFlag
  /\ transport' = tr
  /\ IF connectedFlag /\ tr # "simulation"
     THEN /\ firstRealReceivedRef' = FALSE
          /\ startBackendPolling
     ELSE /\ UNCHANGED firstRealReceivedRef
          /\ stopBackendPolling
  /\ UNCHANGED <<modeState, targets, samples, inputRampRef, rampTimers,
                 lastInputValueRef, inflight, now>>
  /\ Observe("handleConnectionChange", NoArg, "none", <<>>, "none", NoWrite)
  /\ SimEffect

\* ---- telemetry sources ----------------------------------------------------
\* A point of the simulator's waveform (a function of Date.now()): voltage, current,
\* power and the output-power buffer value as the callback computes them at one
\* instant with the output enabled, and at one with it disabled.
SimWave(enabled) ==
  IF enabled
  THEN {[voltage |-> 50110, current |-> 6073, power |-> 30000, outP |-> 31200]}
  ELSE {[voltage |-> 140, current |-> 71, power |-> 0, outP |-> -310]}

\* One tick of a simulator interval t, at waveform point w.
SimTick(t, w) ==
  LET targetPin == computeActivePin(t.activeOutputMode, t.targetVoltage, t.targetCurrent,
                                    t.currentBatterySettings, t.currentMobileSettings)
      inputValue == IF t.outputEnabled THEN targetPin ELSE readLastInputValue
  IN  /\ Mounted
      /\ Spend("sim", MaxSimTicks)
      /\ telemetry' = [timestamp |-> now, voltage |-> w.voltage, current |-> w.current,
                       power |-> Times(w.power, Unit), simulated |-> TRUE,
                       inputVoltage |-> ABSENT]
      /\ lastInputValueRef' = inputValue
      /\ sparklineData' =
           [inputPower |-> Append60(sparklineData.inputPower, toFixed3(inputValue)),
            outputPower |-> Append60(sparklineData.outputPower, w.outP),
            outputVoltage |-> Append60(sparklineData.outputVoltage, w.voltage),
            outputCurrent |-> Append60(sparklineData.outputCurrent, w.current)]
      /\ Observe("simTick", NoArg, "none", <<>>, "sim",
                     Wrote(FALSE, <<toFixed3(inputValue)>>, <<w.outP>>, <<w.voltage>>, <<w.current>>))
      /\ UNCHANGED <<modeState, connState, targets, simIntervalRef, inputRampRef,
                     firstRealReceivedRef, pollingRef, timers, now>>

\* Mutant of the ramp value: the fraction lags one step behind.
rampValueLagging(startVal, delta, stepIndex) ==
  toFixed3(startVal + (delta * (stepIndex - 1)) \div RampSteps)

\* Number((startVal + delta * Math.min(1, stepIndex / steps)).toFixed(3))
rampValue(startVal, delta, stepIndex) ==
  IF stepIndex >= RampSteps
  THEN toFixed3(startVal + delta)
  ELSE ((RampSteps * startVal + delta * stepIndex + 5 * RampSteps) \div (10 * RampSteps)) * 10

\* One tick of a ramp interval t.
RampStep(t) ==
  LET stepIndex == t.stepIndex + 1
      value == rampValue(t.startVal, t.delta, stepIndex)
      stepped == (rampTimers \ {t}) \cup {[t EXCEPT !.stepIndex = stepIndex]}
  IN  /\ Mounted
      /\ stepIndex <= RampSteps + 1
      /\ lastInputValueRef' = value
      /\ sparklineData' = [sparklineData EXCEPT !.inputPower = Append60(@, value)]
      /\ IF stepIndex >= RampSteps /\ inputRampRef # 0
         THEN /\ rampTimers' = ClearInterval(stepped, inputRampRef)
              /\ inputRampRef' = 0
         ELSE /\ rampTimers' = stepped
              /\ UNCHANGED inputRampRef
      /\ Observe("rampStep", NoArg, "none", <<>>, "ramp", Wrote(FALSE, <<value>>, <<>>, <<>>, <<>>))
      /\ UNCHANGED <<modeState, connState, targets, telemetry, simIntervalRef,
                     firstRealReceivedRef, pollingRef, simTimers, pollTimers, inflight,
                     now, used>>

\* Bodies GET /read may answer with, at time n: the spec's reference sample
\* {timestamp, voltage: 5.0, current: 0.6}, a full sample without timestamp, and a
\* body with none of the fields.
Payloads(n) ==
  {[timestamp |-> n, voltage |-> 5 * Unit, current |-> 6000, power |-> ABSENT,
    inputVoltage |-> ABSENT],
   [timestamp |-> ABSENT, voltage |-> 50204, current |-> 6100, power |-> 30600,
    inputVoltage |-> 120500],
   [timestamp |-> ABSENT, voltage |-> ABSENT, current |-> ABSENT, power |-> ABSENT,
    inputVoltage |-> ABSENT]}

\* field ?? fallback
OrElse(field, fallback) == IF field = ABSENT THEN fallback ELSE field

\* The poll callback's mapping of a body into TelemetryData.
pollTelemetry(data) ==
  [timestamp |-> IF data.timestamp # ABSENT THEN data.timestamp ELSE now,
   voltage |-> OrElse(data.voltage, 0),
   current |-> OrElse(data.current, 0),
   power |-> IF data.power # ABSENT THEN Times(data.power, Unit)
             ELSE Times(OrElse(data.voltage, 0), OrElse(data.current, 0)),
   simulated |-> FALSE,
   inputVoltage |-> OrElse(data.inputVoltage, 0)]

\* The value the poll callback writes to the input channel.
pollInputVal(t) == toFixed3(OrElse(t.inputVoltage, t.voltage))

\* A poll interval fires: the callback starts its fetch.
PollTick(t) ==
  /\ UNCHANGED mounted
  /\ Spend("poll", MaxPolls)
  /\ inflight' = inflight + 1
  /\ Observe("pollTick", NoArg, "none", <<>>, "none", NoWrite)
  /\ UNCHANGED <<reactState, refs, simTimers, rampTimers, pollTimers, now>>

\* Mutant of the failed poll: the failure stops the polling.
PollFailStopsPolling(how) ==
  /\ UNCHANGED mounted
  /\ RampQuiet
  /\ inflight > 0
  /\ inflight' = inflight - 1
  /\ stopBackendPolling
  /\ Observe("pollFail", NoArg, "none", <<>>, "none", NoWrite)
  /\ UNCHANGED <<reactState, simIntervalRef, inputRampRef, firstRealReceivedRef,
                 lastInputValueRef, simTimers, rampTimers, now, used>>

\* The fetch rejects, the response is not OK, or the body is empty.
PollFail(how) ==
  /\ UNCHANGED mounted
  /\ RampQuiet
  /\ inflight > 0
  /\ inflight' = inflight - 1
  /\ Observe("pollFail", NoArg, "none", <<>>, "none", NoWrite)
  /\ UNCHANGED <<reactState, refs, simTimers, rampTimers, pollTimers, now, used>>

\* The fetch continuation with a body.
PollResponse(data) ==
  LET t == pollTelemetry(data)
      inputVal == pollInputVal(t)
      p == toFixed3Power(t.power)
      v == toFixed3(t.voltage)
      c == toFixed3(t.current)
  IN  /\ Mounted
      /\ RampQuiet
      /\ inflight > 0
      /\ inflight' = inflight - 1
      /\ telemetry' = t
      /\ IF ~firstRealReceivedRef
         THEN /\ firstRealReceivedRef' = TRUE
              /\ IF simIntervalRef # 0
                 THEN /\ simTimers' = ClearInterval(simTimers, simIntervalRef)
                      /\ simIntervalRef' = 0
                 ELSE UNCHANGED <<simTimers, simIntervalRef>>
              /\ sparklineData' = [inputPower |-> Fill(inputVal), outputPower |-> Fill(p),
                                   outputVoltage |-> Fill(v), outputCurrent |-> Fill(c)]
              /\ lastInputValueRef' = inputVal
              /\ Observe("pollResponse", data, "none", <<>>, "poll",
                             Wrote(TRUE, <<inputVal>>, <<p>>, <<v>>, <<c>>))
         ELSE /\ sparklineData' =
                   [inputPower |-> Append60(sparklineData.inputPower, inputVal),
                    outputPower |-> Append60(sparklineData.outputPower, p),
                    outputVoltage |-> Append60(sparklineData.outputVoltage, v),
                    outputCurrent |-> Append60(sparklineData.outputCurrent, c)]
              /\ Observe("pollResponse", data, "none", <<>>, "poll",
                             Wrote(FALSE, <<inputVal>>, <<p>>, <<v>>, <<c>>))
              /\ UNCHANGED <<firstRealReceivedRef, simTimers, simIntervalRef, lastInputValueRef>>
      /\ UNCHANGED <<modeState, connState, targets, inputRampRef, pollingRef,
                     rampTimers, pollTimers, now, used>>

\* The fetch continuation with a body, after the component was unmounted: the state
\* setters do nothing, the refs are still written.
PollResponseUnmounted(data) ==
  LET inputVal == pollInputVal(pollTelemetry(data))
  IN  /\ ~mounted
      /\ UNCHANGED mounted
      /\ inflight > 0
      /\ inflight' = inflight - 1
      /\ IF ~firstRealReceivedRef
         THEN /\ firstRealReceivedRef' = TRUE
              /\ IF simIntervalRef # 0
                 THEN /\ simTimers' = ClearInterval(simTimers, simIntervalRef)
                      /\ simIntervalRef' = 0
                 ELSE UNCHANGED <<simTimers, simIntervalRef>>
              /\ lastInputValueRef' = inputVal
         ELSE UNCHANGED <<firstRealReceivedRef, simTimers, simIntervalRef, lastInputValueRef>>
      /\ Observe("pollResponseUnmounted", data, "none", <<>>, "none", NoWrite)
      /\ UNCHANGED <<reactState, inputRampRef, pollingRef, rampTimers, pollTimers, now, used>>

\* The cleanups that run when the component goes away: the simulator effect's, and
\* the unmount effect's (ramp interval, simulator interval).
Teardown ==
  /\ mounted' = FALSE
  /\ rampTimers' = IF inputRampRef # 0 THEN ClearInterval(rampTimers, inputRampRef)
                   ELSE rampTimers
  /\ inputRampRef' = 0
  /\ simTimers' = IF simIntervalRef # 0 THEN ClearInterval(simTimers, simIntervalRef)
                  ELSE simTimers
  /\ simIntervalRef' = 0

\* The component is unmounted.
Unmount ==
  /\ mounted
  /\ Spend("unmount", MaxUnmounts)
  /\ Teardown
  /\ Observe("unmount", NoArg, "none", <<>>, "none", NoWrite)
  /\ UNCHANGED <<reactState, firstRealReceivedRef, lastInputValueRef, pollingRef,
                 pollTimers, inflight, now>>

\* Details a device-telemetry event may carry, at time n; the last one lacks the
\* voltage.
PushDetails(n) ==
  {[timestamp |-> n, voltage |-> 5 * Unit, current |-> 6000, power |-> 30000,
    inputVoltage |-> ABSENT],
   [timestamp |-> ABSENT, voltage |-> 50204, current |-> 6100, power |-> ABSENT,
    inputVoltage |-> 120500],
   [timestamp |-> n, voltage |-> ABSENT, current |-> 6000, power |-> 30000,
    inputVoltage |-> ABSENT]}

\* { ...ce.detail, simulated: false }
pushTelemetry(detail) ==
  [timestamp |-> detail.timestamp, voltage |-> detail.voltage, current |-> detail.current,
   power |-> IF detail.power # ABSENT THEN Times(detail.power, Unit) ELSE ABSENT,
   simulated |-> FALSE, inputVoltage |-> detail.inputVoltage]

\* newTelemetry.power ?? newTelemetry.voltage * newTelemetry.current
pushPower(t) == OrElse(t.power, Times(t.voltage, t.current))

\* onDeviceTelemetry
onDeviceTelemetry(detail) ==
  LET t == pushTelemetry(detail)
      usingRealDevice == connected /\ transport # "simulation"
      \* (power) * 1.05; the powers of the model are multiples of 20
      inputVal == toFixed3Power((pushPower(t) \div 20) * 21)
      p == toFixed3Power(pushPower(t))
      v == toFixed3(t.voltage)
      c == toFixed3(t.current)
  IN  /\ Mounted
      /\ detail.voltage # ABSENT /\ detail.current # ABSENT
      /\ Spend("push", MaxPushes)
      /\ telemetry' = t
      /\ IF usingRealDevice /\ ~firstRealReceivedRef
         THEN /\ firstRealReceivedRef' = TRUE
              /\ IF simIntervalRef # 0
                 THEN /\ simTimers' = ClearInterval(simTimers, simIntervalRef)
                      /\ simIntervalRef' = 0
                 ELSE UNCHANGED <<simTimers, simIntervalRef>>
              /\ sparklineData' = [inputPower |-> Fill(inputVal), outputPower |-> Fill(p),
                                   outputVoltage |-> Fill(v), outputCurrent |-> Fill(c)]
              /\ lastInputValueRef' = inputVal
              /\ Observe("onDeviceTelemetry", detail, "none", <<>>, "push",
                             Wrote(TRUE, <<inputVal>>, <<p>>, <<v>>, <<c>>))
         ELSE /\ sparklineData' =
                   [sparklineData EXCEPT !.outputPower = Append60(@, p),
                                         !.outputVoltage = Append60(@, v),
                                         !.outputCurrent = Append60(@, c)]
              /\ Observe("onDeviceTelemetry", detail, "none", <<>>, "push",
                             Wrote(FALSE, <<>>, <<p>>, <<v>>, <<c>>))
              /\ UNCHANGED <<firstRealReceivedRef, simTimers, simIntervalRef, lastInputValueRef>>
      /\ UNCHANGED <<modeState, connState, targets, inputRampRef, pollingRef,
                     rampTimers, pollTimers, inflight, now>>

\* onDeviceTelemetry for a detail without voltage or current: undefined.toFixed(3)
\* throws.  In the first-real branch it throws inside the handler, after the flag
\* was set and the simulator cleared and before the buffers are written; in the
\* append branch it throws in the state updater, during the render, which takes the
\* component down.
onDeviceTelemetryThrows(detail) ==
  /\ mounted
  /\ detail.voltage = ABSENT \/ detail.current = ABSENT
  /\ Spend("push", MaxPushes)
  /\ IF connected /\ transport # "simulation" /\ ~firstRealReceivedRef
     THEN /\ telemetry' = pushTelemetry(detail)
          /\ firstRealReceivedRef' = TRUE
          /\ IF simIntervalRef # 0
             THEN /\ simTimers' = ClearInterval(simTimers, simIntervalRef)
                  /\ simIntervalRef' = 0
             ELSE UNCHANGED <<simTimers, simIntervalRef>>
          /\ Observe("onDeviceTelemetry", detail, "threw", <<>>, "push", NoWrite)
          /\ UNCHANGED <<mounted, inputRampRef, rampTimers>>
     ELSE /\ Teardown
          /\ Observe("onDeviceTelemetry", detail, "threw", <<>>, "none", NoWrite)
          /\ UNCHANGED <<telemetry, firstRealReceivedRef>>
  /\ UNCHANGED <<modeState, connState, targets, sparklineData, lastInputValueRef,
                 pollingRef, pollTimers, inflight, now>>

\* Date.now() moves on: the instants observed are FreshnessWindow - 1 after the
\* start, and then every millisecond.
ClockAdvance ==
  /\ UNCHANGED mounted
  /\ Spend("clock", MaxClockSteps)
  /\ now' = IF now = 0 THEN FreshnessWindow - 1 ELSE now + 1
  /\ Observe("clock", NoArg, "none", <<>>, "none", NoWrite)
  /\ UNCHANGED <<reactState, refs, timers>>

\* Mutant of the freshness test: a sample aged exactly the window still counts.
hasRealTelemetryInclusive ==
  /\ telemetry.simulated = FALSE
  /\ telemetry.timestamp # ABSENT
  /\ now - telemetry.timestamp <= FreshnessWindow

\* telemetry.simulated === false && typeof telemetry.timestamp === 'number'
\*   && (now - telemetry.timestamp) < 5000
hasRealTelemetry ==
  /\ telemetry.simulated = FALSE
  /\ telemetry.timestamp # ABSENT
  /\ now - telemetry.timestamp < FreshnessWindow

\* What an ingestion path leaves behind for a sample: telemetry, the first-real
\* flag, the simulator interval, lastInputValueRef and the buffers.
Outcome(t, first, sim, lastIn, bufs) ==
  [telemetry |-> t, firstRealReceivedRef |-> first, simTimers |-> sim,
   lastInputValueRef |-> lastIn, sparklineData |-> bufs]

SimStopped == IF simIntervalRef # 0 THEN ClearInterval(simTimers, simIntervalRef) ELSE simTimers

\* The poll callback applied to body d in the current state.
PollOutcome(d) ==
  LET t == pollTelemetry(d)
      inputVal == pollInputVal(t)
      p == toFixed3Power(t.power)
      v == toFixed3(t.voltage)
      c == toFixed3(t.current)
  IN  IF ~firstRealReceivedRef
      THEN Outcome(t, TRUE, SimStopped, inputVal,
                   [inputPower |-> Fill(inputVal), outputPower |-> Fill(p),
                    outputVoltage |-> Fill(v), outputCurrent |-> Fill(c)])
      ELSE Outcome(t, firstRealReceivedRef, simTimers, lastInputValueRef,
                   [inputPower |-> Append60(sparklineData.inputPower, inputVal),
                    outputPower |-> Append60(sparklineData.outputPower, p),
                    outputVoltage |-> Append60(sparklineData.outputVoltage, v),
                    outputCurrent |-> Append60(sparklineData.outputCurrent, c)])

\* onDeviceTelemetry applied to detail d in the current state.
PushOutcome(d) ==
  LET t == pushTelemetry(d)
      inputVal == toFixed3Power((pushPower(t) \div 20) * 21)
      p == toFixed3Power(pushPower(t))
      v == toFixed3(t.voltage)
      c == toFixed3(t.current)
  IN  IF connected /\ transport # "simulation" /\ ~firstRealReceivedRef
      THEN Outcome(t, TRUE, SimStopped, inputVal,
                   [inputPower |-> Fill(inputVal), outputPower |-> Fill(p),
                    outputVoltage |-> Fill(v), outputCurrent |-> Fill(c)])
      ELSE Outcome(t, firstRealReceivedRef, simTimers, lastInputValueRef,
                   [sparklineData EXCEPT !.outputPower = Append60(@, p),
                                         !.outputVoltage = Append60(@, v),
                                         !.outputCurrent = Append60(@, c)])

\* Mutant of displayedMetrics: the sample is shown whatever the freshness gate says.
displayedMetricsUngated ==
  [inputPower |-> OrElse(telemetry.inputVoltage, 0), outputPower |-> telemetry.power,
   outputVoltage |-> telemetry.voltage, outputCurrent |-> telemetry.current]

\* const displayedMetrics = (() => { ... })(): inputPower, outputVoltage and
\* outputCurrent in units of 0.0001, outputPower (like telemetry.power) in units of
\* 0.0001 * 0.0001.
displayedMetrics ==
  LET zeros == [inputPower |-> 0, outputPower |-> 0, outputVoltage |-> 0, outputCurrent |-> 0]
      setpoint(v, i) == [inputPower |-> 12 * Unit,
                         outputPower |-> toFixed3Power(Times(v, i)) * Unit,
                         outputVoltage |-> v, outputCurrent |-> i]
  IN  IF hasRealTelemetry
      THEN [inputPower |-> OrElse(telemetry.inputVoltage, 0), outputPower |-> telemetry.power,
            outputVoltage |-> telemetry.voltage, outputCurrent |-> telemetry.current]
      ELSE IF activeOutputMode = "none" THEN zeros
      ELSE IF activeOutputMode = "load" THEN setpoint(targetVoltage, targetCurrent)
      ELSE IF activeOutputMode = "battery" /\ currentBatterySettings # NULL
      THEN setpoint(currentBatterySettings.vmax, currentBatterySettings.imax)
      ELSE IF activeOutputMode = "mobile" /\ currentMobileSettings # NULL
      THEN setpoint(currentMobileSettings.voltage, currentMobileSettings.current)
      ELSE zeros

\* ---- specification ---------------------------------------------------------
\* A step of the Coordinator taken through its interface: the child components'
\* own state is not involved.
Standalone == UNCHANGED children

Next ==
  \/ handleOutputToggleOn /\ Standalone
  \/ handleOutputToggleOff /\ Standalone
  \/ handleSoftStart /\ Standalone
  \/ \E s \in BatterySettingsSet : handleStartCharging(s) /\ Standalone
  \/ handleStopCharging /\ Standalone
  \/ \E s \in MobileSettingsSet : handleStartMobileCharge(s) /\ Standalone
  \/ handleStopMobileCharge /\ Standalone
  \/ \E v \in VoltageSet : handleVoltageChange(v) /\ Standalone
  \/ \E c \in CurrentSet : handleCurrentChange(c) /\ Standalone
  \/ \E preset \in Presets : applyPreset(preset) /\ Standalone
  \/ \E tr \in Transports : handleConnectionChange(TRUE, tr) /\ Standalone
  \/ handleConnectionChange(FALSE, transport) /\ Standalone
  \/ \E t \in simTimers : \E w \in SimWave(t.outputEnabled) : SimTick(t, w) /\ Standalone
  \/ \E t \in rampTimers : RampStep(t) /\ Standalone
  \/ \E t \in pollTimers : PollTick(t) /\ Standalone
  \/ \E how \in {"fetchRejected", "responseNotOk", "emptyBody"} : PollFail(how) /\ Standalone
  \/ \E data \in Payloads(now) : PollResponse(data) /\ Standalone
  \/ \E data \in Payloads(now) : PollResponseUnmounted(data) /\ Standalone
  \/ \E detail \in PushDetails(now) : onDeviceTelemetry(detail) /\ Standalone
  \/ \E detail \in PushDetails(now) : onDeviceTelemetryThrows(detail) /\ Standalone
  \/ Unmount /\ Standalone
  \/ ClockAdvance /\ Standalone

Spec == Init /\ [][Next]_vars

\* ---- the page's controls ---------------------------------------------------
\* The child components as Index renders them: each control calls the prop it was
\* given, so a step of a control is a step of the handler behind it together with
\* the child's own state updates.  The telemetry sources and the ramp are left idle
\* here.
MaxCountdown == 61

\* The step was taken by the named control.
Control(name) == observed' = [observed EXCEPT !.control = name]

\* A control that runs no handler of Index.
LocalStep ==
  /\ mounted
  /\ UNCHANGED <<reactState, refs, timers, now, used, last, realTrusted, sampleOrigin, mounted>>

NoDialog == ~loadTab.showConfirmation /\ ~mobileTab.showStopConfirmation

\* The items of the DeviceBar's port selector in a browser without Web Serial.
PortSet == {"simulation", "bridge"}

\* The transport connect() reports for the selected port (no Web Serial: a port
\* other than 'simulation' is reached over the bridge).
PortTransport(port) == IF port = "simulation" THEN "simulation" ELSE "bridge"

\* PowerHubHeader.handleConnectionChange, the onConnectionChange the DeviceBar is
\* given: it logs its arguments.
headerHandleConnectionChange(connectedFlag, tr) == LocalStep

\* What the DeviceBar passed to onConnectionChange.
Reported(connectedFlag, tr) == [connected |-> connectedFlag, transport |-> tr]

DeviceBarSelect(port) ==
  /\ NoDialog
  /\ port # deviceBar.selectedPort
  /\ deviceBar' = [deviceBar EXCEPT !.selectedPort = port]
  /\ Control("selectPort")
  /\ LocalStep
  /\ UNCHANGED <<loadTab, mobileTab>>

\* The Connect/Disconnect button: onClick={connected ? disconnect : connect}.
\* connect() waits a second before it reports; disconnect() reports at once.
DeviceBarButton ==
  /\ NoDialog
  /\ ~deviceBar.isConnecting /\ deviceBar.selectedPort # ""
  /\ IF connected
     THEN /\ headerHandleConnectionChange(FALSE, transport)
          /\ observed' = [observed EXCEPT !.control = "disconnect",
                                          !.reported = Reported(FALSE, transport)]
          /\ UNCHANGED deviceBar
     ELSE /\ deviceBar' = [deviceBar EXCEPT !.isConnecting = TRUE,
                                            !.pending = deviceBar.selectedPort]
          /\ Control("connectClick")
          /\ LocalStep
  /\ UNCHANGED <<loadTab, mobileTab>>

\* connect() after its delay: onConnectionChange(true, transport of the port).
DeviceBarConnected ==
  /\ deviceBar.isConnecting
  /\ headerHandleConnectionChange(TRUE, PortTransport(deviceBar.pending))
  /\ deviceBar' = [deviceBar EXCEPT !.isConnecting = FALSE, !.pending = ""]
  /\ observed' = [observed EXCEPT !.control = "connect",
                                  !.reported = Reported(TRUE, PortTransport(deviceBar.pending))]
  /\ UNCHANGED <<loadTab, mobileTab>>

\* TabNavigation: setActiveTab(t).  Index renders only the active tab, so the tab
\* left is unmounted and the tab entered mounts with its initial state.
onTabChange(t) ==
  /\ mounted /\ NoDialog
  /\ t # activeTab
  /\ activeTab' = t
  /\ loadTab' = LoadTabInit
  /\ mobileTab' = MobileTabInit
  /\ Control("tab")
  /\ UNCHANGED <<outputEnabled, isCharging, isMobileCharging, connState, activeOutputMode,
                 currentBatterySettings, currentMobileSettings, targets, samples,
                 refs, timers, now, used, last, realTrusted, sampleOrigin, mounted, deviceBar>>

\* ---- LoadOutputTab ----
LoadTabPresets == {[voltage |-> 9 * Unit, current |-> 15 * 1000],
                   [voltage |-> 12 * Unit, current |-> Unit]}

\* voltage > 10 || currentLimit > 1.5
HighPower == loadTab.voltage > 10 * Unit \/ loadTab.currentLimit > 15 * 1000

LoadTabShown == activeTab = "load" /\ NoDialog

LoadTabApplyPreset(preset) ==
  /\ LoadTabShown
  /\ loadTab' = [loadTab EXCEPT !.voltage = preset.voltage, !.currentLimit = preset.current]
  /\ applyPreset(preset)
  /\ Control("preset")
  /\ UNCHANGED <<deviceBar, mobileTab>>

\* The tab's handleOutputToggle, called by the Switch with !outputEnabled.
LoadTabSwitch ==
  /\ LoadTabShown
  /\ IF ~outputEnabled /\ HighPower
     THEN /\ loadTab' = [loadTab EXCEPT !.showConfirmation = TRUE]
          /\ LocalStep
     ELSE /\ IF outputEnabled THEN handleOutputToggleOff ELSE handleOutputToggleOn
          /\ UNCHANGED loadTab
  /\ Control("switch")
  /\ UNCHANGED <<deviceBar, mobileTab>>

confirmHighPowerOutput ==
  /\ activeTab = "load" /\ loadTab.showConfirmation
  /\ handleOutputToggleOn
  /\ loadTab' = [loadTab EXCEPT !.showConfirmation = FALSE]
  /\ Control("confirmHighPower")
  /\ UNCHANGED <<deviceBar, mobileTab>>

LoadTabCancel ==
  /\ activeTab = "load" /\ loadTab.showConfirmation
  /\ loadTab' = [loadTab EXCEPT !.showConfirmation = FALSE]
  /\ LocalStep
  /\ Control("cancelHighPower")
  /\ UNCHANGED <<deviceBar, mobileTab>>

\* The Start Output / Stop Output button: onClick={() => onOutputToggle(!outputEnabled)}.
LoadTabStartStopButton ==
  /\ LoadTabShown
  /\ IF outputEnabled THEN handleOutputToggleOff ELSE handleOutputToggleOn
  /\ Control("startStopButton")
  /\ UNCHANGED <<deviceBar, loadTab, mobileTab>>

\* The Soft Start button: onClick={onSoftStart}, disabled={outputEnabled}.
LoadTabSoftStartButton ==
  /\ LoadTabShown
  /\ ~outputEnabled
  /\ handleSoftStart
  /\ Control("softStart")
  /\ UNCHANGED <<deviceBar, loadTab, mobileTab>>

\* ---- ChargeMobileTab ----
\* The custom duration entered, in minutes.
DurationSet == {1}

MobileTabShown == activeTab = "mobile" /\ NoDialog

MobileTabSetDuration(d) ==
  /\ MobileTabShown
  /\ ~isMobileCharging /\ d # mobileTab.duration
  /\ mobileTab' = [mobileTab EXCEPT !.duration = d]
  /\ LocalStep
  /\ Control("duration")
  /\ UNCHANGED <<deviceBar, loadTab>>

Min(a, b) == IF a <= b THEN a ELSE b

\* The tab's handleStartCharging: setTimeRemaining(duration * 60), then
\* onStartMobileCharge(settings).
MobileTabStart ==
  LET settings == [voltage |-> Min(5 * Unit, mobileTab.voltage),
                   current |-> Min(2 * Unit, mobileTab.currentLimit)]
  IN  /\ MobileTabShown
      /\ ~isMobileCharging /\ mobileTab.duration > 0
      /\ mobileTab' = [mobileTab EXCEPT !.timeRemaining = mobileTab.duration * 60]
      /\ handleStartMobileCharge(settings)
      /\ observed' = IF requestAccepted("mobile")
                     THEN [observed EXCEPT !.control = "startMobile",
                                           !.durationSec = mobileTab.duration * 60,
                                           !.elapsed = 0]
                     ELSE [observed EXCEPT !.control = "startMobile"]
      /\ UNCHANGED <<deviceBar, loadTab>>

handlePauseResume ==
  /\ MobileTabShown
  /\ isMobileCharging
  /\ mobileTab' = [mobileTab EXCEPT !.isPaused = ~mobileTab.isPaused]
  /\ LocalStep
  /\ Control("pauseResume")
  /\ UNCHANGED <<deviceBar, loadTab>>

\* The tab's handleStopCharging opens the stop dialog.
MobileTabStop ==
  /\ MobileTabShown
  /\ isMobileCharging
  /\ mobileTab' = [mobileTab EXCEPT !.showStopConfirmation = TRUE]
  /\ LocalStep
  /\ Control("stopMobile")
  /\ UNCHANGED <<deviceBar, loadTab>>

confirmStop ==
  /\ activeTab = "mobile" /\ mobileTab.showStopConfirmation
  /\ handleStopMobileCharge
  /\ mobileTab' = [mobileTab EXCEPT !.showStopConfirmation = FALSE, !.timeRemaining = 0,
                                    !.isPaused = FALSE]
  /\ Control("confirmStop")
  /\ UNCHANGED <<deviceBar, loadTab>>

MobileTabCancelStop ==
  /\ activeTab = "mobile" /\ mobileTab.showStopConfirmation
  /\ mobileTab' = [mobileTab EXCEPT !.showStopConfirmation = FALSE]
  /\ LocalStep
  /\ Control("cancelStop")
  /\ UNCHANGED <<deviceBar, loadTab>>

\* One tick of the countdown interval, which exists while the tab is mounted, the
\* charge is on and not paused: setTimeRemaining(prev => prev <= 1 ?
\* (onStopMobileCharge(), 0) : prev - 1).
CountdownTick ==
  /\ activeTab = "mobile" /\ isMobileCharging /\ ~mobileTab.isPaused
  /\ observed.elapsed < MaxCountdown
  /\ IF mobileTab.timeRemaining <= 1
     THEN /\ handleStopMobileCharge
          /\ mobileTab' = [mobileTab EXCEPT !.timeRemaining = 0]
          /\ observed' = [observed EXCEPT !.control = "countdownExpired", !.elapsed = @ + 1]
     ELSE /\ mobileTab' = [mobileTab EXCEPT !.timeRemaining = @ - 1]
          /\ LocalStep
          /\ observed' = [observed EXCEPT !.control = "countdownTick", !.elapsed = @ + 1]
  /\ UNCHANGED <<deviceBar, loadTab>>

NextControls ==
  \/ \E port \in PortSet : DeviceBarSelect(port)
  \/ DeviceBarButton
  \/ DeviceBarConnected
  \/ \E t \in Modes : onTabChange(t)
  \/ \E preset \in LoadTabPresets : LoadTabApplyPreset(preset)
  \/ LoadTabSwitch
  \/ confirmHighPowerOutput
  \/ LoadTabCancel
  \/ LoadTabStartStopButton
  \/ LoadTabSoftStartButton
  \/ \E d \in DurationSet : MobileTabSetDuration(d)
  \/ MobileTabStart
  \/ handlePauseResume
  \/ MobileTabStop
  \/ confirmStop
  \/ MobileTabCancelStop
  \/ CountdownTick

SpecControls == Init /\ [][NextControls]_vars

\* ---- claims ----------------------------------------------------------------
usingRealDevice == connected /\ transport # "simulation"

\* C1 (as amended): while the Coordinator is Connected on a non-simulation transport
\* and the first real Sample since that connection has been accepted, no simulator
\* interval exists and no Simulator-origin Sample is appended to the buffers,
\* whatever ticks, polls, pushes, commands and connection changes interleave.
C1_SimulatorGatedWhileRealTrusted ==
  (usingRealDevice /\ firstRealReceivedRef) => (simTimers = {} /\ last.writer # "sim")

\* C1 witness: real data is trusted and a command has re-run the simulator effect.
C1_Witness ==
  /\ usingRealDevice /\ firstRealReceivedRef
  /\ last.op = "handleOutputToggle(true)" /\ last.ok = "accepted"

\* C1 (original): once a first real Sample was accepted on a non-simulation
\* connection, no Simulator-origin Sample is appended until the transport switches
\* back to Simulation.
C1_Original == realTrusted => last.writer # "sim"

\* The handlers that call requestStart, and the mode each asks for.
StartOps == {"handleOutputToggle(true)", "handleSoftStart", "handleStartCharging",
             "handleStartMobileCharge"}
RequestedMode(op) ==
  IF op = "handleStartCharging" THEN "battery"
  ELSE IF op = "handleStartMobileCharge" THEN "mobile" ELSE "load"

\* The steps that run stopActiveOutput: the stop handlers, and the output toggle
\* switched off while Load is active.
IsStop(op, active) ==
  \/ op \in {"handleStopCharging", "handleStopMobileCharge"}
  \/ op = "handleOutputToggle(false)" /\ active = "load"

arbiterState == <<activeOutputMode, currentBatterySettings, currentMobileSettings,
                  outputEnabled, isCharging, isMobileCharging>>

\* C2: a requestStart for a mode other than the active one returns false, raises the
\* rejection toast naming the active mode, and leaves the active mode, the stored
\* settings and the output/charging flags as they were.
C2_OtherModeRejected ==
  [][(last'.op \in StartOps /\ activeOutputMode # "none"
        /\ activeOutputMode # RequestedMode(last'.op))
     => /\ last'.ok = "rejected"
        /\ last'.toasts[Len(last'.toasts)] = Toast("Stop previous output first", activeOutputMode)
        /\ UNCHANGED arbiterState]_vars

\* C2 witness: Battery is active with settings s and a Mobile start was just rejected.
C2_Witness ==
  /\ last.op = "handleStartMobileCharge" /\ last.ok = "rejected"
  /\ activeOutputMode = "battery" /\ isCharging
  /\ currentBatterySettings \in BatterySettingsSet /\ currentMobileSettings = NULL

\* C3: a requestStart is accepted exactly when no mode is active or the active mode
\* is the requested one; an accepted request makes the requested mode the active one
\* and stores the settings passed (also when it re-starts the active mode); a mode
\* only ever becomes active in the step of its own accepted request, so a rejected
\* request is not queued; and the charging flags never name two modes.
C3_AcceptedIffIdleOrSame ==
  /\ [][last'.op \in StartOps =>
          LET m == RequestedMode(last'.op)
          IN  /\ (last'.ok = "accepted") <=> (activeOutputMode = "none" \/ activeOutputMode = m)
              /\ last'.ok \in {"accepted", "rejected"}
              /\ last'.ok = "accepted" =>
                   /\ activeOutputMode' = m
                   /\ m = "battery" => currentBatterySettings' = last'.arg
                   /\ m = "mobile" => currentMobileSettings' = last'.arg]_vars
  /\ [][(activeOutputMode' # activeOutputMode /\ activeOutputMode' # "none")
          => (last'.op \in StartOps /\ last'.ok = "accepted"
              /\ activeOutputMode' = RequestedMode(last'.op))]_vars
  /\ [](activeOutputMode \in Modes \cup {"none"} /\ ~(isCharging /\ isMobileCharging))

\* C3 witness: Battery was re-started while active and the new settings are stored.
C3_Witness ==
  /\ last.op = "handleStartCharging" /\ last.ok = "accepted" /\ last.prev = "battery"
  /\ currentBatterySettings = last.arg
  /\ used.cmd = 2

\* C4: stopActiveOutput from any active mode leaves no mode active, a requestStart
\* that follows it is accepted whatever mode it asks for, and stopActiveOutput with
\* no mode active changes nothing of the component's state.
C4_StopThenStart ==
  /\ [][IsStop(last'.op, activeOutputMode) =>
          /\ activeOutputMode' = "none"
          /\ activeOutputMode = "none" => UNCHANGED <<reactState, refs, timers>>]_vars
  /\ [][(last'.op \in StartOps /\ last.afterStop /\ IsStop(last.op, last.prev))
          => last'.ok = "accepted"]_vars
  /\ [][(last'.op \in StartOps /\ last'.afterStop) => last'.ok = "accepted"]_vars

\* C4 witness: Load was started, stopped, and the Mobile start that followed was
\* accepted.
C4_Witness ==
  /\ last.op = "handleStartMobileCharge" /\ last.ok = "accepted" /\ last.afterStop
  /\ used.cmd = 3 /\ activeOutputMode = "mobile"

Channels == {"inputPower", "outputPower", "outputVoltage", "outputCurrent"}
Abs(x) == IF x < 0 THEN 0 - x ELSE x

\* C5: every history buffer has length at most BufferLen, and every step leaves each
\* channel holding the most recent BufferLen values written to it, in write order:
\* untouched when the step wrote nothing to the channel, the old content without its
\* oldest value followed by the value written on an append, and BufferLen copies of
\* the sample's value on a first-real reset.
C5_BuffersKeepLast60 ==
  /\ [](\A ch \in Channels : Len(sparklineData[ch]) <= BufferLen)
  /\ [][\A ch \in Channels :
          LET w == last'.wrote[ch]
          IN  IF w = <<>> THEN sparklineData'[ch] = sparklineData[ch]
              ELSE IF last'.wrote.reset
              THEN sparklineData'[ch] = [i \in 1..BufferLen |-> w[1]]
              ELSE /\ Len(sparklineData'[ch]) = BufferLen
                   /\ sparklineData'[ch][BufferLen] = w[1]
                   /\ \A i \in 1..(BufferLen - 1) :
                        sparklineData'[ch][i] = sparklineData[ch][i + 1]]_vars

\* C5 witness: after a first-real reset a later sample was appended: the newest value
\* sits last and the reset's value still fills the front.
C5_Witness ==
  /\ last.op = "pollResponse" /\ ~last.wrote.reset
  /\ sparklineData.outputVoltage[BufferLen] = last.wrote.outputVoltage[1]
  /\ sparklineData.outputVoltage[BufferLen - 1] # sparklineData.outputVoltage[BufferLen]
  /\ sparklineData.outputVoltage[1] = sparklineData.outputVoltage[BufferLen - 1]
  /\ sparklineData.outputVoltage[1] # 0

\* The ramp interval a ramp step belongs to.
TickingRamp == CHOOSE t \in rampTimers : t.id = inputRampRef

\* C6 (as amended): the i-th tick of a ramp from a to b emits a + (b-a)*i/S rounded to
\* three decimals, a ramp ticks at most S times, each value is no farther from b than
\* the one before, the S-th value is b, and the S-th tick clears the ramp's own
\* interval, so nothing is emitted afterwards.
C6_RampInterpolatesRounded ==
  [][last'.op = "rampStep" =>
       LET t == TickingRamp
           i == t.stepIndex + 1
           a == t.startVal
           b == t.startVal + t.delta
           v == last'.wrote.inputPower[1]
           before == IF i = 1 THEN a ELSE rampValue(a, t.delta, i - 1)
       IN  /\ i <= RampSteps
           /\ v % 10 = 0
           /\ 2 * Abs(RampSteps * v - (RampSteps * a + t.delta * i)) <= 10 * RampSteps
           /\ Abs(b - v) <= Abs(b - before)
           /\ i = RampSteps => v = b /\ rampTimers' = {} /\ inputRampRef' = 0
           /\ i < RampSteps => t.id = inputRampRef' /\ \E u \in rampTimers' : u.stepIndex = i
           /\ lastInputValueRef' = v]_vars

\* C6 witness: the reference ramp from 0 to 10 W has run its 12 steps and cleared its
\* interval; the buffer ends 0.833, 1.667, ..., 9.167, 10.
C6_Witness ==
  /\ last.op = "rampStep" /\ rampTimers = {} /\ inputRampRef = 0
  /\ sparklineData.inputPower[BufferLen] = 10 * Unit
  /\ sparklineData.inputPower[BufferLen - 1] = 91670
  /\ sparklineData.inputPower[BufferLen - RampSteps + 1] = 8330
  /\ sparklineData.inputPower[BufferLen - RampSteps] = 0

\* C6 as stated: the i-th value is exactly a + (b-a)*i/S.
C6_Original ==
  [][last'.op = "rampStep" =>
       LET t == TickingRamp
       IN  RampSteps * last'.wrote.inputPower[1]
             = RampSteps * t.startVal + t.delta * (t.stepIndex + 1)]_vars

\* C7: the freshness gate holds exactly when the latest sample came from the poller
\* or a push, carries a timestamp, and is younger than FreshnessWindow; it fails for
\* every simulated sample and for a real one aged FreshnessWindow or more.
C7_FreshnessGate ==
  /\ hasRealTelemetry <=> /\ sampleOrigin \in {"poll", "push"}
                          /\ telemetry.timestamp # ABSENT
                          /\ now - telemetry.timestamp < FreshnessWindow
  /\ sampleOrigin \in {"init", "sim"} => ~hasRealTelemetry
  /\ (telemetry.timestamp # ABSENT /\ now - telemetry.timestamp >= FreshnessWindow)
       => ~hasRealTelemetry

\* C7 witness: a polled sample has aged exactly FreshnessWindow and the gate is off.
C7_Witness ==
  /\ sampleOrigin = "poll" /\ telemetry.simulated = FALSE
  /\ telemetry.timestamp # ABSENT
  /\ now - telemetry.timestamp = FreshnessWindow
  /\ ~hasRealTelemetry

\* C8: connected over the bridge, a first poll answering {voltage 5.0, current 0.6}
\* sets the first-real flag, leaves no simulator interval, and fills the voltage,
\* current and power buffers with 5.0, 0.6 and 3.0 and the input channel with the
\* voltage 5.0, the body carrying no inputVoltage.
C8_FirstPollFillsBuffers ==
  ( /\ last.op = "pollResponse" /\ last.wrote.reset
    /\ connected /\ transport = "bridge"
    /\ last.arg.voltage = 5 * Unit /\ last.arg.current = 6000
    /\ last.arg.power = ABSENT /\ last.arg.inputVoltage = ABSENT )
  => /\ firstRealReceivedRef /\ simTimers = {} /\ simIntervalRef = 0
     /\ sparklineData.outputVoltage = Fill(5 * Unit)
     /\ sparklineData.outputCurrent = Fill(6000)
     /\ sparklineData.outputPower = Fill(3 * Unit)
     /\ sparklineData.inputPower = Fill(5 * Unit)

\* C9: at most one ramp interval exists and it is the one inputRampRef names; a step
\* that starts a ramp leaves only the new interval, not yet ticked, so the interval
\* it replaced emits nothing more; and only the interval inputRampRef names ticks.
C9_SingleRamp ==
  /\ [](/\ Cardinality(rampTimers) <= 1
        /\ \A t \in rampTimers : t.id = inputRampRef
        /\ inputRampRef # 0 => rampTimers # {})
  /\ [][(rampTimers' # rampTimers /\ last'.op # "rampStep" /\ mounted')
          => /\ last'.ok \in {"accepted", "none"}
             /\ \E n \in rampTimers' :
                  /\ rampTimers' = {n}
                  /\ n.stepIndex = 0 /\ n.startVal = lastInputValueRef
                  /\ inputRampRef' = n.id]_vars
  /\ [][last'.op = "rampStep" =>
          \E t \in rampTimers : t.id = inputRampRef /\ rampTimers \ {t} = {}]_vars

\* C9 witness: a ramp was started while the ramp from 0 to 10 W had ticked once; the
\* new ramp starts from the value the old one reached and is the only interval.
C9_Witness ==
  /\ last.op \in {"handleStopMobileCharge", "handleOutputToggle(false)",
                  "handleStartMobileCharge"}
  /\ \E n \in rampTimers : rampTimers = {n} /\ n.stepIndex = 0 /\ n.startVal = 8330

\* C10: whenever the component is connected over a non-simulation transport, a poll
\* interval is scheduled.
C10_PollerWhileConnected ==
  usingRealDevice => (pollTimers # {} /\ pollingRef # 0)

\* C11: in no state that is disconnected or uses the Simulation transport is a poll
\* interval scheduled, and in every such state the simulator interval is scheduled.
C11_SimulatorOnlyWhenNotReal ==
  ~usingRealDevice => (pollTimers = {} /\ pollingRef = 0 /\ simTimers # {})

\* The latest Sample is real and younger than FreshnessWindow.
SampleTrusted ==
  /\ sampleOrigin \in {"poll", "push"}
  /\ telemetry.timestamp # ABSENT
  /\ now - telemetry.timestamp < FreshnessWindow

\* The voltage and current the active mode is configured with.
ModeSetpoint ==
  IF activeOutputMode = "load" THEN [v |-> targetVoltage, i |-> targetCurrent]
  ELSE IF activeOutputMode = "battery"
  THEN [v |-> currentBatterySettings.vmax, i |-> currentBatterySettings.imax]
  ELSE [v |-> currentMobileSettings.voltage, i |-> currentMobileSettings.current]

\* C12 (as amended): with a trusted Sample the displayed metrics are the Sample's
\* voltage, current and power and its reported input voltage (0 when it reports
\* none); otherwise, with a mode active, output voltage and current are the mode's
\* configured values, output power is their product rounded to three decimals and
\* the input reading is the constant 12.0; with no mode active all four are zero.
C12_DisplayedMetricsRounded ==
  /\ SampleTrusted =>
       /\ displayedMetrics.outputVoltage = telemetry.voltage
       /\ displayedMetrics.outputCurrent = telemetry.current
       /\ displayedMetrics.outputPower = telemetry.power
       /\ displayedMetrics.inputPower =
            IF telemetry.inputVoltage = ABSENT THEN 0 ELSE telemetry.inputVoltage
  /\ (~SampleTrusted /\ activeOutputMode = "none") =>
       displayedMetrics = [inputPower |-> 0, outputPower |-> 0,
                           outputVoltage |-> 0, outputCurrent |-> 0]
  /\ (~SampleTrusted /\ activeOutputMode # "none") =>
       /\ displayedMetrics.outputVoltage = ModeSetpoint.v
       /\ displayedMetrics.outputCurrent = ModeSetpoint.i
       /\ displayedMetrics.outputPower % (10 * Unit) = 0
       /\ 2 * Abs(displayedMetrics.outputPower - ModeSetpoint.v * ModeSetpoint.i) <= 10 * Unit
       /\ displayedMetrics.inputPower = 12 * Unit

\* C12 witness: Mobile charging at 4.99 V / 1.01 A with no trusted Sample: the output
\* power shown is 5.04, the product 5.0399 rounded.
C12_Witness ==
  /\ ~SampleTrusted /\ activeOutputMode = "mobile"
  /\ currentMobileSettings = [voltage |-> 499 * 100, current |-> 101 * 100]
  /\ displayedMetrics.outputPower = 504 * 100 * Unit
  /\ displayedMetrics.outputVoltage = 499 * 100

\* C12 as stated: without a trusted Sample the output power shown is the product of
\* the active mode's configured voltage and current.
C12_Original ==
  (~SampleTrusted /\ activeOutputMode # "none") =>
    displayedMetrics.outputPower = ModeSetpoint.v * ModeSetpoint.i

\* C13: a poll that fails (fetch rejected, response not OK, empty body) changes none
\* of telemetry, the buffers, the first-real flag and the simulator interval, raises
\* no toast, and leaves the poll interval as it was, so the next tick polls again.
C13_FailedPollIsSilent ==
  [][last'.op = "pollFail" =>
       /\ UNCHANGED <<telemetry, sparklineData, firstRealReceivedRef, lastInputValueRef,
                      simTimers, simIntervalRef, pollTimers, pollingRef>>
       /\ last'.toasts = <<>> /\ last'.writer = "none"]_vars

\* C13 witness: connected over a real transport, a poll has failed before any real
\* Sample arrived; the poll interval and the simulator are still scheduled.
C13_Witness ==
  /\ last.op = "pollFail" /\ usingRealDevice /\ ~firstRealReceivedRef
  /\ pollTimers # {} /\ pollingRef # 0 /\ simTimers # {}
  /\ telemetry.simulated

\* Samples carrying every field, as either ingestion path may deliver them at time n.
FullSamples(n) ==
  {[timestamp |-> n, voltage |-> 5 * Unit, current |-> 6000, power |-> 3 * Unit,
    inputVoltage |-> 120500]}

\* C14: in every reachable state and for every Sample, the push path and the poll
\* path leave the same telemetry, first-real flag, simulator scheduling,
\* lastInputValue and buffers.
C14_PushSameAsPoll ==
  \A d \in FullSamples(now) : PushOutcome(d) = PollOutcome(d)

\* C15: a poll or push payload with absent fields never makes its handler fail: the
\* absent voltage and current become 0 and the resulting Sample is folded in as a
\* real Sample.
C15_MalformedPayloadDefaulted ==
  last.op \in {"pollResponse", "onDeviceTelemetry"} =>
    /\ last.ok # "threw" /\ mounted
    /\ telemetry.voltage = (IF last.arg.voltage = ABSENT THEN 0 ELSE last.arg.voltage)
    /\ telemetry.current = (IF last.arg.current = ABSENT THEN 0 ELSE last.arg.current)
    /\ telemetry.simulated = FALSE
    /\ last.writer \in {"poll", "push"} /\ last.wrote.outputVoltage # <<>>

\* C16: once the component is unmounted, no simulator, poll or ramp interval is
\* scheduled.
C16_NoTimerAfterTeardown ==
  ~mounted => (simTimers = {} /\ rampTimers = {} /\ pollTimers = {})

\* The steps that call stopBackendPolling: a connection change to disconnected or to
\* the Simulation transport, and the stop of the active Load output.
StopsPolling ==
  \/ last'.op = "handleConnectionChange" /\ ~(connected' /\ transport' # "simulation")
  \/ IsStop(last'.op, activeOutputMode) /\ activeOutputMode = "load"

\* The steps that clear the simulator interval outside the simulator effect, and the
\* steps that clear the ramp interval.
ClearsSimulator ==
  \/ last'.op \in {"pollResponse", "pollResponseUnmounted"} /\ ~firstRealReceivedRef
  \/ last'.op = "onDeviceTelemetry" /\ usingRealDevice /\ ~firstRealReceivedRef
  \/ ~mounted' /\ mounted
ClearsRamp ==
  \/ ~mounted' /\ mounted
  \/ last'.op # "rampStep" /\ inputRampRef' # inputRampRef

\* C17: cancellation is idempotent.  stopBackendPolling leaves no poll interval, and
\* with none running it changes nothing; clearing the simulator interval leaves
\* none, and with none scheduled it changes nothing; cancelling the ramp when the
\* ramp has completed removes nothing (a ramp start then only adds its own
\* interval).  So a second stop has the effect of the first.
C17_CancelIdempotent ==
  /\ [][StopsPolling =>
          /\ pollingRef' = 0 /\ pollTimers' = {}
          /\ pollingRef = 0 => UNCHANGED <<pollingRef, pollTimers>>]_vars
  /\ [][ClearsSimulator =>
          /\ simIntervalRef' = 0 /\ simTimers' = {}
          /\ simIntervalRef = 0 => UNCHANGED <<simIntervalRef, simTimers>>]_vars
  /\ [][(ClearsRamp /\ inputRampRef = 0) =>
          /\ rampTimers \subseteq rampTimers'
          /\ mounted' = mounted \/ UNCHANGED <<inputRampRef, rampTimers>>]_vars

\* C17 witness: the poller was never started and stopBackendPolling has run twice
\* (two connection changes that end disconnected on the Simulation transport).
C17_Witness ==
  /\ last.op = "handleConnectionChange" /\ ~connected /\ transport = "simulation"
  /\ used.conn = 2 /\ used.cmd = 0 /\ used.unmount = 0
  /\ pollingRef = 0 /\ pollTimers = {}

SetpointOps == {"handleVoltageChange", "handleCurrentChange", "applyPreset"}

\* C18: a setpoint change while Load is active starts a ramp toward the product of
\* the target voltage and target current in force after the change (as
\* computeActivePin rounds it), also when a preset changes both at once; a setpoint
\* change while Load is not active starts no ramp.
C18_SetpointRampTarget ==
  [][last'.op \in SetpointOps =>
       IF activeOutputMode = "load"
       THEN \E n \in rampTimers' :
              /\ rampTimers' = {n} /\ inputRampRef' = n.id /\ n.stepIndex = 0
              /\ n.startVal + n.delta = toFixed3Power(targetVoltage' * targetCurrent')
       ELSE UNCHANGED <<rampTimers, inputRampRef>>]_vars

\* The setpoint power voltage x current of the mode an accepted start step started,
\* rounded as computeActivePin rounds it.
StartedPin ==
  IF RequestedMode(last'.op) = "load" THEN toFixed3Power(targetVoltage' * targetCurrent')
  ELSE IF RequestedMode(last'.op) = "battery"
  THEN toFixed3Power(last'.arg.vmax * last'.arg.imax)
  ELSE toFixed3Power(last'.arg.voltage * last'.arg.current)

\* C19: an accepted start (output toggle on, Soft Start, start charging, start mobile
\* charge) starts a ramp of the input-power channel whose target is the started
\* mode's setpoint power: targetVoltage x targetCurrent for Load, the profile's
\* voltage x current for Battery and Mobile.
C19_StartRampsToSetpoint ==
  [][(last'.op \in StartOps /\ last'.ok = "accepted") =>
       \E n \in rampTimers' :
         /\ rampTimers' = {n} /\ inputRampRef' = n.id /\ n.stepIndex = 0
         /\ n.startVal + n.delta = StartedPin]_vars

\* C20: every output disable (the output toggle switched off in any state, and the
\* stop of the active Load output) starts a ramp of the input-power channel toward
\* 0 and leaves no poll interval.
C20_DisableRampsDownAndStopsPoller ==
  [][(last'.op = "handleOutputToggle(false)"
        \/ (IsStop(last'.op, activeOutputMode) /\ activeOutputMode = "load")) =>
       /\ \E n \in rampTimers' :
            /\ rampTimers' = {n} /\ inputRampRef' = n.id /\ n.stepIndex = 0
            /\ n.startVal + n.delta = 0
       /\ pollTimers' = {} /\ pollingRef' = 0]_vars

\* C21: a poll tick's Sample is folded in before the next tick of the poll interval
\* fires: at most one /read fetch is in flight, however long a fetch takes.
C21_OnePollInFlight == inflight <= 1

\* C22: once the first-real flag is set, folding a further real Sample (from a poll
\* or from a push) leaves the input-power buffer and lastInputValueRef as they were
\* and appends one value to each of the three output buffers.
C22_RealSampleLeavesInputChannel ==
  [][(last'.op \in {"pollResponse", "onDeviceTelemetry"} /\ last'.ok # "threw"
        /\ firstRealReceivedRef) =>
       /\ sparklineData'.inputPower = sparklineData.inputPower
       /\ lastInputValueRef' = lastInputValueRef
       /\ \A ch \in {"outputPower", "outputVoltage", "outputCurrent"} :
            sparklineData'[ch] = Append60(sparklineData[ch], last'.wrote[ch][1])]_vars

\* C24: a poll response that completes right after the connection was dropped or
\* switched to Simulation is not folded in: it leaves the first-real flag, the
\* simulator interval and the buffers as they were, so the Simulator the connection
\* change restarted keeps running.
C24_LateResponseNotFolded ==
  [][(last.op = "handleConnectionChange" /\ ~usingRealDevice
        /\ last'.op = "pollResponse") =>
       /\ UNCHANGED <<firstRealReceivedRef, simTimers, simIntervalRef, sparklineData>>
       /\ simTimers' # {}]_vars

\* C25: while a ramp interval is scheduled, folding a real Sample (poll or push)
\* appends nothing to the input-power buffer and leaves lastInputValueRef alone, so
\* the values the buffer receives during the ramp are the ramp's own.
C25_RampOnlyWriter ==
  [][(rampTimers # {} /\ last'.writer \in {"poll", "push"}) =>
       /\ sparklineData'.inputPower = sparklineData.inputPower
       /\ lastInputValueRef' = lastInputValueRef]_vars

\* C26: while the component is mounted, lastInputValueRef is the value most recently
\* appended to the input-power buffer, so a new ramp starts from the value last
\* recorded on that channel.
C26_LastInputIsNewestEntry ==
  mounted => lastInputValueRef = sparklineData.inputPower[BufferLen]

\* C27: the mode flags agree with the active mode: isCharging exactly when Battery is
\* active, isMobileCharging exactly when Mobile is, outputEnabled exactly when Load
\* or Mobile is.
C27_FlagsAgreeWithMode ==
  /\ isCharging <=> activeOutputMode = "battery"
  /\ isMobileCharging <=> activeOutputMode = "mobile"
  /\ outputEnabled <=> activeOutputMode \in {"load", "mobile"}

\* The steps that call startBackendPolling: an accepted Soft Start and a connection
\* change to a connected, non-simulation transport.
StartsPolling ==
  \/ last'.op = "handleSoftStart" /\ last'.ok = "accepted"
  \/ last'.op = "handleConnectionChange" /\ connected' /\ transport' # "simulation"

\* C30: at most one simulator, one poll and one ramp interval exist; each ref is
\* non-null exactly when its interval is scheduled, and then names it; and starting
\* the Poller while it is running leaves the one interval and its ref as they were.
C30_OneIntervalPerRef ==
  /\ [](/\ Cardinality(simTimers) <= 1 /\ Cardinality(pollTimers) <= 1
        /\ Cardinality(rampTimers) <= 1
        /\ simIntervalRef # 0 <=> simTimers # {}
        /\ pollingRef # 0 <=> pollTimers # {}
        /\ inputRampRef # 0 <=> rampTimers # {}
        /\ \A t \in simTimers : t.id = simIntervalRef
        /\ \A t \in pollTimers : t.id = pollingRef
        /\ \A t \in rampTimers : t.id = inputRampRef)
  /\ [][(StartsPolling /\ pollingRef # 0) => UNCHANGED <<pollingRef, pollTimers>>]_vars
  /\ [][(StartsPolling /\ pollingRef = 0) =>
          \E t \in pollTimers' : pollTimers' = {t} /\ pollingRef' = t.id]_vars

\* C30 witness: the Poller was started by the connection over the bridge and Soft
\* Start has called startBackendPolling again; one interval of each kind exists.
C30_Witness ==
  /\ last.op = "handleSoftStart" /\ last.ok = "accepted"
  /\ connected /\ transport = "bridge" /\ used.conn = 1 /\ used.cmd = 1
  /\ Cardinality(pollTimers) = 1 /\ Cardinality(rampTimers) = 1
  /\ Cardinality(simTimers) = 1

\* C23: every connect and disconnect performed in the DeviceBar reaches the
\* Coordinator: once the DeviceBar has reported a connection state, the
\* Coordinator's connected and transport equal the state last reported.
C23_ConnectionDelivered ==
  observed.reported # NULL =>
    /\ connected = observed.reported.connected
    /\ transport = observed.reported.transport

\* C28: a step of a Load-tab control that switches the output on while the tab's
\* voltage is above 10 V or its current limit is above 1.5 A is the confirmation of
\* the high-power dialog.
C28_HighPowerNeedsConfirmation ==
  [][(activeTab = "load" /\ HighPower /\ ~outputEnabled /\ outputEnabled') =>
       observed'.control = "confirmHighPower"]_vars

\* C29: the countdown stops a mobile charge started with D seconds exactly when D
\* unpaused countdown ticks have elapsed since the start, never earlier.
C29_StopsAfterDuration ==
  [][observed'.control = "countdownExpired" =>
       observed'.elapsed = observed.durationSec]_vars
====
